---- MODULE Spec2Model ----
(***************************************************************************)
(* Settlement of investor deposits and withdrawals of moneyflow-web:       *)
(* app/api/admin/execute-deposits/route.ts and                             *)
(* app/api/admin/execute-withdrawals/route.ts, over the tables             *)
(* nav_snapshots, investor_accounts, investor_deposit_requests,            *)
(* investor_withdraw_requests and principal_adjustments.                   *)
(*                                                                         *)
(* JavaScript numbers are modelled as exact values x0 + x1*e + x2*e^2 with  *)
(* e = 10^-6 and rational coefficients (see Numbers).  IEEE rounding is    *)
(* not modelled.                                                           *)
(***************************************************************************)
EXTENDS Integers, Sequences, FiniteSets, TLC

VARIABLES nav_snapshots, investor_accounts, investor_deposit_requests,
          investor_withdraw_requests, principal_adjustments,
          hasNavIdCol, now, call, faults, started, page

vars == <<nav_snapshots, investor_accounts, investor_deposit_requests,
          investor_withdraw_requests, principal_adjustments,
          hasNavIdCol, now, call, faults, started, page>>

store == <<nav_snapshots, investor_accounts, investor_deposit_requests,
           investor_withdraw_requests, principal_adjustments>>

-----------------------------------------------------------------------------
(* Bounds of the model *)

MaxCalls == 2

MaxFaults == 1

MaxDeposits == 2

MaxWithdrawals == 2

-----------------------------------------------------------------------------
(* Numbers *)

\* Rationals <<n, d>> in lowest terms, d > 0; <<0, 0>> is "not a rational"
QNaN == <<0, 0>>

Abs(n) == IF n < 0 THEN -n ELSE n

RECURSIVE GCD(_, _)
GCD(a, b) == IF b = 0 THEN a ELSE GCD(b, a % b)

Q(n, d) == LET g == GCD(Abs(n), d) IN <<n \div g, d \div g>>

Q0 == <<0, 1>>

QOk(x) == x[2] > 0

LCM(a, b) == (a \div GCD(a, b)) * b

QAdd(x, y) ==
    LET l == LCM(x[2], y[2])
    IN  Q(x[1] * (l \div x[2]) + y[1] * (l \div y[2]), l)

QNeg(x) == <<-x[1], x[2]>>

QSub(x, y) == QAdd(x, QNeg(y))

QMul(x, y) ==
    LET g1 == GCD(Abs(x[1]), y[2])
        g2 == GCD(Abs(y[1]), x[2])
    IN  <<(x[1] \div g1) * (y[1] \div g2), (x[2] \div g2) * (y[2] \div g1)>>

\* x / y for y > 0
QDiv(x, y) == QMul(x, <<y[2], y[1]>>)

QLt(x, y) ==
    LET l == LCM(x[2], y[2])
    IN  x[1] * (l \div x[2]) < y[1] * (l \div y[2])

\* A JavaScript number is modelled as x0 + x1*e + x2*e^2 with e = 10^-6 and
\* rational x0, x1, x2, written <<x0, x1, x2>>: this resolves the tolerances
\* 1e-6 (= e) and 1e-12 (= e^2) of the handlers exactly without integers beyond
\* 32 bits.  Terms of order e^3 are dropped.  The coefficients of the model stay
\* far below 10^6, so the order of two numbers is the lexicographic order.
\* NaN stands for every value that is not a finite number (null, NaN).
NaN == <<QNaN, QNaN, QNaN>>

Num(x0, x1, x2) == <<x0, x1, x2>>

R(n) == <<<<n, 1>>, Q0, Q0>>

Zero == R(0)

\* 10^-6 and 10^-12
Micro == <<Q0, <<1, 1>>, Q0>>

Pico == <<Q0, Q0, <<1, 1>>>>

IsFinite(x) == QOk(x[1])

RAdd(x, y) ==
    IF ~IsFinite(x) \/ ~IsFinite(y) THEN NaN
    ELSE <<QAdd(x[1], y[1]), QAdd(x[2], y[2]), QAdd(x[3], y[3])>>

RNeg(x) == IF IsFinite(x) THEN <<QNeg(x[1]), QNeg(x[2]), QNeg(x[3])>> ELSE NaN

RSub(x, y) == RAdd(x, RNeg(y))

\* comparisons are false when an operand is not a number, as in JavaScript
RLt(x, y) ==
    /\ IsFinite(x) /\ IsFinite(y)
    /\ \/ QLt(x[1], y[1])
       \/ x[1] = y[1] /\ QLt(x[2], y[2])
       \/ x[1] = y[1] /\ x[2] = y[2] /\ QLt(x[3], y[3])

RGt(x, y) == RLt(y, x)

RLe(x, y) == IsFinite(x) /\ IsFinite(y) /\ ~RLt(y, x)

IsPos(x) == RLt(Zero, x)

\* x / y = q with q * y = x up to e^2, for a divisor y with y0 > 0 (every divisor of
\* the handlers is guarded by > 0; StandardDivisors checks that none is below e)
RDiv(x, y) ==
    IF ~IsFinite(x) \/ ~IsFinite(y) \/ y[1][1] <= 0 THEN NaN
    ELSE LET q0 == QDiv(x[1], y[1])
             q1 == QDiv(QSub(x[2], QMul(q0, y[2])), y[1])
             q2 == QDiv(QSub(QSub(x[3], QMul(q0, y[3])), QMul(q1, y[2])), y[1])
         IN  <<q0, q1, q2>>

RMax(x, y) == IF RLt(x, y) THEN y ELSE x

\* num(v): Number(v) if finite, else 0
num(v) == IF IsFinite(v) THEN v ELSE Zero

-----------------------------------------------------------------------------
(* Timestamps: <<"ts", t>> a parseable time, <<"null", 0>> an absent value, *)
(* <<"bad", 0>> a value Date cannot parse                                  *)

Ts(t) == <<"ts", t>>

NullTs == <<"null", 0>>

BadTs == <<"bad", 0>>

\* !v for a created_at value
IsMissing(v) == v[1] = "null"

\* Number.isFinite(new Date(v).getTime())
TsFinite(v) == v[1] = "ts"

\* a < b on getTime() values; false when either is NaN
TsLt(a, b) == TsFinite(a) /\ TsFinite(b) /\ a[2] < b[2]

-----------------------------------------------------------------------------
(* Rows and tables *)

Runs == {"a", "b"}

\* the handler invocations of the sequential specification run one at a time
SerialRuns == {"a"}

Users == {"u1", "u2", "u3"}

SetToSeqs(S) == {s \in [1..Cardinality(S) -> S] : \A i, j \in 1..Cardinality(S) : i # j => s[i] # s[j]}

RECURSIVE SumOver(_, _)
\* sum of f[x] over x in S
SumOver(f, S) ==
    IF S = {} THEN Zero
    ELSE LET x == CHOOSE y \in S : TRUE IN RAdd(f[x], SumOver(f, S \ {x}))

\* .order("created_at", {ascending: false}).limit(1).maybeSingle() on nav_snapshots:
\* <<>> when the table is empty, else <<row>> for a row that sorts first
\* (descending order puts NULL first; ties are broken by the store)
LatestNavRows(table) ==
    IF table = <<>> THEN {<<>>}
    ELSE LET rows  == {table[k] : k \in DOMAIN table}
             nulls == {x \in rows : ~TsFinite(x.created_at)}
             tops  == {x \in rows : \A y \in rows : ~TsLt(x.created_at, y.created_at)}
         IN  {<<x>> : x \in IF nulls # {} THEN nulls ELSE tops}

\* a select that leaves out every row
NoPendingIds(table) == {}

\* the ids of the rows with status PENDING
PendingIds(table) == {k \in DOMAIN table : table[k].status = "PENDING"}

\* the select without its order clause: the rows in any order
InAnyOrder(table, ids) == SetToSeqs(ids)

\* .eq("status", "PENDING").order("created_at", {ascending: true}): the orders the
\* store may return (ascending puts NULL last; ties are broken by the store)
AscendingByCreatedAt(table, ids) ==
    {s \in SetToSeqs(ids) :
        \A i, j \in DOMAIN s : i < j =>
            /\ ~TsLt(table[s[j]].created_at, table[s[i]].created_at)
            /\ (TsFinite(table[s[j]].created_at) => TsFinite(table[s[i]].created_at))}

-----------------------------------------------------------------------------
(* execute-deposits: pure parts *)

\* clock ticks per calendar month
TicksPerMonth == 4

\* monthKeyNow(): the calendar month of the clock
monthKeyNow(t) == t \div TicksPerMonth

\* the price precondition without the sign check
PriceNotFinite(sp) == ~IsFinite(sp)

\* !sharePrice || !Number.isFinite(sharePrice) || sharePrice <= 0
PriceUnavailable(sp) == ~IsFinite(sp) \/ ~RGt(sp, Zero)

Field(navRow, f) == IF navRow = <<>> THEN NaN ELSE navRow[1][f]

\* the record the resolver returns for a given price and source
Resolved(navRow, accounts, sharePrice, source) ==
    [nav |-> num(Field(navRow, "total_nav")),
     navCreatedAt |-> IF navRow = <<>> THEN NullTs ELSE navRow[1].created_at,
     navId |-> IF navRow = <<>> THEN 0 ELSE navRow[1].id,
     totalShares |-> SumOver([u \in DOMAIN accounts |-> num(accounts[u].shares)],
                             DOMAIN accounts),
     totalPrincipal |-> SumOver([u \in DOMAIN accounts |-> num(accounts[u].principal)],
                                DOMAIN accounts),
     sharePrice |-> sharePrice, sharePriceSource |-> source]

\* a resolver that recomputes total_nav / total_shares before looking at the
\* stored share_price
getLatestRecomputedFirst(navRow, accounts) ==
    LET nav   == num(Field(navRow, "total_nav"))
        live  == SumOver([u \in DOMAIN accounts |-> num(accounts[u].shares)], DOMAIN accounts)
        sp    == Field(navRow, "share_price")
        snapS == Field(navRow, "total_shares")
    IN  IF IsPos(snapS) /\ IsPos(nav)
        THEN Resolved(navRow, accounts, RDiv(nav, snapS), "nav_snapshots.total_nav/total_shares")
        ELSE IF IsPos(sp)
        THEN Resolved(navRow, accounts, sp, "nav_snapshots.share_price")
        ELSE Resolved(navRow, accounts, IF IsPos(live) THEN RDiv(nav, live) ELSE NaN,
                      "fallback(nav/totalSharesFromAccounts)")

\* a resolver without the second source: stored share_price, else the live sum
getLatestWithoutSnapshotShares(navRow, accounts) ==
    LET nav   == num(Field(navRow, "total_nav"))
        live  == SumOver([u \in DOMAIN accounts |-> num(accounts[u].shares)], DOMAIN accounts)
        sp    == Field(navRow, "share_price")
    IN  IF IsPos(sp)
        THEN Resolved(navRow, accounts, sp, "nav_snapshots.share_price")
        ELSE Resolved(navRow, accounts, IF IsPos(live) THEN RDiv(nav, live) ELSE NaN,
                      "fallback(nav/totalSharesFromAccounts)")

\* a resolver without the third source: no price when the snapshot yields none
getLatestWithoutLiveSum(navRow, accounts) ==
    LET nav   == num(Field(navRow, "total_nav"))
        sp    == Field(navRow, "share_price")
        snapS == Field(navRow, "total_shares")
    IN  IF IsPos(sp)
        THEN Resolved(navRow, accounts, sp, "nav_snapshots.share_price")
        ELSE IF IsPos(snapS) /\ IsPos(nav)
        THEN Resolved(navRow, accounts, RDiv(nav, snapS), "nav_snapshots.total_nav/total_shares")
        ELSE Resolved(navRow, accounts, NaN, "fallback(nav/totalSharesFromAccounts)")

\* a resolver that always divides total_nav by the live sum of the account shares
getLatestFromLiveSumOnly(navRow, accounts) ==
    LET nav  == num(Field(navRow, "total_nav"))
        live == SumOver([u \in DOMAIN accounts |-> num(accounts[u].shares)], DOMAIN accounts)
    IN  Resolved(navRow, accounts, IF IsPos(live) THEN RDiv(nav, live) ELSE NaN,
                 "fallback(nav/totalSharesFromAccounts)")

getLatestNavAndSharePrice(navRow, accounts) ==
    LET nav          == num(Field(navRow, "total_nav"))
        navCreatedAt == IF navRow = <<>> THEN NullTs ELSE navRow[1].created_at
        navId        == IF navRow = <<>> THEN 0 ELSE navRow[1].id
        shares       == [u \in DOMAIN accounts |-> num(accounts[u].shares)]
        principals   == [u \in DOMAIN accounts |-> num(accounts[u].principal)]
        totalSharesFromAccounts == SumOver(shares, DOMAIN accounts)
        totalPrincipal          == SumOver(principals, DOMAIN accounts)
        base == [nav |-> nav, navCreatedAt |-> navCreatedAt, navId |-> navId,
                 totalShares |-> totalSharesFromAccounts, totalPrincipal |-> totalPrincipal]
        spFromSnapshot      == Field(navRow, "share_price")
        snapshotTotalShares == Field(navRow, "total_shares")
    IN  IF IsPos(spFromSnapshot)
        THEN base @@
             [sharePrice |-> spFromSnapshot, sharePriceSource |-> "nav_snapshots.share_price"]
        ELSE IF IsPos(snapshotTotalShares) /\ IsPos(nav)
        THEN base @@ [sharePrice |-> RDiv(nav, snapshotTotalShares),
                      sharePriceSource |-> "nav_snapshots.total_nav/total_shares"]
        ELSE base @@ [sharePrice |-> IF IsPos(totalSharesFromAccounts)
                                     THEN RDiv(nav, totalSharesFromAccounts) ELSE NaN,
                      sharePriceSource |-> "fallback(nav/totalSharesFromAccounts)"]

\* !Number.isFinite(amount) || amount <= 0
InvalidAmount(amount) == ~IsFinite(amount) \/ RLe(amount, Zero)

\* a gate that finds no snapshot too old
NavNeverTooOld(navCreatedAt, depCreatedAt) == FALSE

\* a gate that finds every snapshot too old
NavAlwaysTooOld(navCreatedAt, depCreatedAt) == TRUE

\* the gate with the comparison alone
NavOlderOnly(navCreatedAt, depCreatedAt) == TsLt(navCreatedAt, depCreatedAt)

\* !depCreatedAt || !Number.isFinite(depTs) || navTs < depTs
NavTooOld(navCreatedAt, depCreatedAt) ==
    IsMissing(depCreatedAt) \/ ~TsFinite(depCreatedAt) \/ TsLt(navCreatedAt, depCreatedAt)

\* const EPS = 1e-6
EPS == Micro

\* the cap checked against the principal the accounts hold when the deposit is handled
ExceedsNavOfLiveAccounts(principalRunning, amount, nav) ==
    RGt(RAdd(SumOver([u \in DOMAIN investor_accounts |-> num(investor_accounts[u].principal)],
                     DOMAIN investor_accounts),
             amount),
        RAdd(nav, EPS))

\* the cap without the tolerance
ExceedsNavWithoutTolerance(principalRunning, amount, nav) ==
    RGt(RAdd(principalRunning, amount), nav)

\* the cap checked without the deposit at hand
ExceedsNavBeforeDeposit(principalRunning, amount, nav) ==
    RGt(principalRunning, RAdd(nav, EPS))

\* principalRunning + amount > nav + EPS
ExceedsNav(principalRunning, amount, nav) ==
    RGt(RAdd(principalRunning, amount), RAdd(nav, EPS))

\* the division written the wrong way round
MintedSharesInverted(amount, sharePrice) == RDiv(sharePrice, amount)

\* amount / sharePrice
MintedShares(amount, sharePrice) == RDiv(amount, sharePrice)

\* a price recomputed from the live account shares at each use
LivePrice(c) ==
    LET live == SumOver([u \in DOMAIN investor_accounts |-> num(investor_accounts[u].shares)],
                        DOMAIN investor_accounts)
    IN  IF IsPos(live) THEN RDiv(c.nav, live) ELSE NaN

\* sharePrice, the constant destructured once from getLatestNavAndSharePrice
\* before the loop and read by every iteration
BatchPrice(c) == c.sharePrice

-----------------------------------------------------------------------------
(* Handler invocations *)

NoAcct == [shares |-> NaN, principal |-> NaN, pending_withdraw |-> NaN]

IdleCall ==
    [kind |-> "none", pc |-> "idle", cookie |-> "",
     nav |-> NaN, navCreatedAt |-> NullTs, navId |-> 0,
     totalShares |-> NaN, totalPrincipal |-> NaN,
     sharePrice |-> NaN, sharePriceSource |-> "",
     pending |-> <<>>, i |-> 0, principalRunning |-> NaN,
     acct |-> NoAcct, results |-> <<>>,
     status |-> 0, error |-> "", executed |-> 0]

\* NextResponse.json(..., {status}) ends the invocation
Respond(c, status, error) ==
    [c EXCEPT !.pc = "done", !.status = status, !.error = error,
              !.executed = Cardinality({k \in DOMAIN c.results : c.results[k].ok})]

\* the catch clause of execute-deposits: 401 for "Unauthorized", else 500
DepositsCatch(c, msg) == Respond(c, IF msg = "Unauthorized" THEN 401 ELSE 500, msg)

CanStart(r) == call[r].pc \in {"idle", "done"} /\ started < MaxCalls

CanFail == faults < MaxFaults

Fail(r, c) ==
    /\ CanFail
    /\ faults' = faults + 1
    /\ call' = [call EXCEPT ![r] = c]

FailResult(id, reason) ==
    [id |-> id, ok |-> FALSE, reason |-> reason, amount |-> NaN, shares |-> NaN,
     new_shares |-> NaN, new_principal |-> NaN, new_pending_withdraw |-> NaN]

-----------------------------------------------------------------------------
(* POST /api/admin/execute-deposits *)

\* a guard that lets every caller through
requireNothing(cookie) == TRUE

\* requireAdminCookie: the mf_admin cookie must be "1"
requireAdminCookie(cookie) == cookie = "1"

\* requireAdminCookie, getLatestNavAndSharePrice and the two preconditions
EdStart(r, cookie) ==
    /\ CanStart(r)
    /\ started' = started + 1
    /\ UNCHANGED <<store, hasNavIdCol, now, page>>
    /\ LET c0 == [IdleCall EXCEPT !.kind = "deposits", !.cookie = cookie]
       IN  IF ~requireAdminCookie(cookie)
           THEN /\ call' = [call EXCEPT ![r] = DepositsCatch(c0, "Unauthorized")]
                /\ UNCHANGED faults
           ELSE \/ Fail(r, DepositsCatch(c0, "backend error"))
                \/ /\ UNCHANGED faults
                   /\ \E navRow \in LatestNavRows(nav_snapshots) :
                        LET g == getLatestNavAndSharePrice(navRow, investor_accounts)
                            c1 == [c0 EXCEPT !.nav = g.nav, !.navCreatedAt = g.navCreatedAt,
                                             !.navId = g.navId, !.totalShares = g.totalShares,
                                             !.totalPrincipal = g.totalPrincipal,
                                             !.sharePrice = g.sharePrice,
                                             !.sharePriceSource = g.sharePriceSource]
                        IN  call' = [call EXCEPT ![r] =
                                IF IsMissing(g.navCreatedAt)
                                THEN Respond(c1, 400, "nav_created_at missing")
                                ELSE IF PriceUnavailable(g.sharePrice)
                                THEN Respond(c1, 400, "share_price unavailable")
                                ELSE [c1 EXCEPT !.pc = "fetch"]]

\* the select of the PENDING deposits, oldest first
EdFetch(r) ==
    /\ call[r].kind = "deposits" /\ call[r].pc = "fetch"
    /\ UNCHANGED <<store, hasNavIdCol, now, started, page>>
    /\ \/ Fail(r, DepositsCatch(call[r], "backend error"))
       \/ /\ UNCHANGED faults
          /\ \E pending \in AscendingByCreatedAt(investor_deposit_requests,
                                                 PendingIds(investor_deposit_requests)) :
               call' = [call EXCEPT ![r] =
                   IF pending = <<>>
                   THEN Respond(call[r], 200, "")
                   ELSE [call[r] EXCEPT !.pc = "loop", !.pending = pending, !.i = 1,
                                        !.principalRunning = call[r].totalPrincipal]]

\* the head of the loop body for deposit pending[i]: the three guards and the
\* read of the account; after the last deposit, the response
EdLoop(r) ==
    /\ call[r].kind = "deposits" /\ call[r].pc = "loop"
    /\ UNCHANGED <<store, hasNavIdCol, now, started, page>>
    /\ LET c == call[r]
       IN  IF c.i > Len(c.pending)
           THEN /\ call' = [call EXCEPT ![r] = Respond(c, 200, "")]
                /\ UNCHANGED faults
           ELSE LET id     == c.pending[c.i]
                    d      == investor_deposit_requests[id]
                    amount == num(d.amount)
                    skip(reason) ==
                        /\ call' = [call EXCEPT ![r] =
                               [c EXCEPT !.results = Append(@, FailResult(id, reason)),
                                         !.i = @ + 1]]
                        /\ UNCHANGED faults
                IN  IF InvalidAmount(amount) THEN skip("invalid amount")
                    ELSE IF NavTooOld(c.navCreatedAt, d.created_at) THEN skip("nav too old")
                    ELSE IF ExceedsNav(c.principalRunning, amount, c.nav)
                    THEN skip("blocked: total principal would exceed NAV")
                    ELSE \/ Fail(r, DepositsCatch(c, "backend error"))
                         \/ IF d.user_id \notin DOMAIN investor_accounts
                            THEN skip("account not found")
                            ELSE /\ call' = [call EXCEPT ![r] =
                                        [c EXCEPT !.pc = "updAcc",
                                                  !.acct = investor_accounts[d.user_id]]]
                                 /\ UNCHANGED faults

\* the update of investor_accounts: shares and principal computed from the row read
EdUpdAcc(r) ==
    /\ call[r].kind = "deposits" /\ call[r].pc = "updAcc"
    /\ UNCHANGED <<nav_snapshots, investor_deposit_requests, investor_withdraw_requests,
                   principal_adjustments, hasNavIdCol, now, started, page>>
    /\ LET c      == call[r]
           d      == investor_deposit_requests[c.pending[c.i]]
           amount == num(d.amount)
           newShares    == RAdd(num(c.acct.shares), MintedShares(amount, BatchPrice(c)))
           newPrincipal == RAdd(num(c.acct.principal), amount)
       IN  \/ /\ Fail(r, DepositsCatch(c, "backend error"))
              /\ UNCHANGED investor_accounts
           \/ /\ UNCHANGED faults
              \* .update(...).eq("user_id", d.user_id) changes the rows that match
              /\ investor_accounts' =
                    IF d.user_id \in DOMAIN investor_accounts
                    THEN [investor_accounts EXCEPT ![d.user_id].shares = newShares,
                                                   ![d.user_id].principal = newPrincipal]
                    ELSE investor_accounts
              /\ call' = [call EXCEPT ![r].pc = "updReq"]

\* updateDepositRequestCompat: the update with nav_snapshot_id, retried without it
\* when the first attempt fails; the row is selected by id alone
EdUpdReq(r) ==
    /\ call[r].kind = "deposits" /\ call[r].pc = "updReq"
    /\ UNCHANGED <<nav_snapshots, investor_accounts, investor_withdraw_requests,
                   principal_adjustments, hasNavIdCol, now, started, page>>
    /\ LET c      == call[r]
           id     == c.pending[c.i]
           d      == investor_deposit_requests[id]
           amount == num(d.amount)
           basePayload == [d EXCEPT !.status = "MINTED", !.executed_at = Ts(now),
                                    !.share_price_used = BatchPrice(c),
                                    !.minted_shares = MintedShares(amount, BatchPrice(c))]
           payloadWithNavId == [basePayload EXCEPT !.nav_snapshot_id = c.navId]
       IN  \/ \* first attempt succeeds
              /\ hasNavIdCol
              /\ investor_deposit_requests' = [investor_deposit_requests EXCEPT ![id] = payloadWithNavId]
              /\ call' = [call EXCEPT ![r].pc = "insAdj"]
              /\ UNCHANGED faults
           \/ \* first attempt fails for the missing column, second succeeds
              /\ ~hasNavIdCol
              /\ investor_deposit_requests' = [investor_deposit_requests EXCEPT ![id] = basePayload]
              /\ call' = [call EXCEPT ![r].pc = "insAdj"]
              /\ UNCHANGED faults
           \/ \* both attempts fail on backend errors
              /\ hasNavIdCol /\ faults + 1 < MaxFaults
              /\ faults' = faults + 2
              /\ UNCHANGED investor_deposit_requests
              /\ call' = [call EXCEPT ![r] = DepositsCatch(c, "backend error")]
           \/ \* a backend error on one attempt: with the column, the retry succeeds;
              \* without it, both attempts have failed and the error is thrown
              /\ CanFail
              /\ faults' = faults + 1
              /\ IF hasNavIdCol
                 THEN /\ investor_deposit_requests' =
                           [investor_deposit_requests EXCEPT ![id] = basePayload]
                      /\ call' = [call EXCEPT ![r].pc = "insAdj"]
                 ELSE /\ UNCHANGED investor_deposit_requests
                      /\ call' = [call EXCEPT ![r] = DepositsCatch(c, "backend error")]

\* the insert into principal_adjustments, then principalRunning += amount and the
\* ok entry of the result list
EdInsAdj(r) ==
    /\ call[r].kind = "deposits" /\ call[r].pc = "insAdj"
    /\ UNCHANGED <<nav_snapshots, investor_accounts, investor_deposit_requests,
                   investor_withdraw_requests, hasNavIdCol, now, started, page>>
    /\ LET c      == call[r]
           id     == c.pending[c.i]
           d      == investor_deposit_requests[id]
           amount == num(d.amount)
           mintedShares == MintedShares(amount, BatchPrice(c))
       IN  \/ /\ Fail(r, DepositsCatch(c, "backend error"))
              /\ UNCHANGED principal_adjustments
           \/ /\ UNCHANGED faults
              /\ principal_adjustments' = Append(principal_adjustments,
                    [month |-> monthKeyNow(now), delta |-> amount,
                     deposit_id |-> id, user_id |-> d.user_id, nav_id |-> c.navId])
              /\ call' = [call EXCEPT ![r] =
                    [c EXCEPT !.pc = "loop", !.i = @ + 1,
                              !.principalRunning = RAdd(@, amount),
                              !.results = Append(@,
                                  [id |-> id, ok |-> TRUE, reason |-> "",
                                   amount |-> amount, shares |-> mintedShares,
                                   new_shares |-> RAdd(num(c.acct.shares), mintedShares),
                                   new_principal |-> RAdd(num(c.acct.principal), amount),
                                   new_pending_withdraw |-> NaN])]]

-----------------------------------------------------------------------------
(* POST /api/admin/execute-withdrawals *)

\* Number(v ?? 0), for a column that holds a number or NULL
NumberOrZero(v) == IF IsFinite(v) THEN v ELSE Zero

getNavAndTotalShares(navRow, accounts) ==
    LET nav          == NumberOrZero(Field(navRow, "total_nav"))
        navCreatedAt == IF navRow = <<>> THEN NullTs ELSE navRow[1].created_at
        shares       == [u \in DOMAIN accounts |-> NumberOrZero(accounts[u].shares)]
        totalShares  == SumOver(shares, DOMAIN accounts)
    IN  [nav |-> nav, navCreatedAt |-> navCreatedAt, totalShares |-> totalShares,
         sharePrice |-> IF IsPos(totalShares) THEN RDiv(nav, totalShares) ELSE NaN]

\* the catch clause of execute-withdrawals answers 401 whatever was thrown
WithdrawalsCatch(c, msg) == Respond(c, 401, msg)

\* amount / sharePrice
BurnShares(amount, sharePrice) == RDiv(amount, sharePrice)

\* a share check that lets every withdrawal through
NeverInsufficient(currentShares, burnShares) == FALSE

\* the share check with a tolerance of 1e-6
InsufficientSharesLoose(currentShares, burnShares) ==
    RLt(RAdd(currentShares, Micro), burnShares)

\* currentShares + 1e-12 < burnShares
InsufficientShares(currentShares, burnShares) == RLt(RAdd(currentShares, Pico), burnShares)

\* the subtraction without the floor at zero
NewPendingUnfloored(currentPending, amount) == RSub(currentPending, amount)

\* Math.max(0, currentPending - amount)
NewPending(currentPending, amount) == RMax(Zero, RSub(currentPending, amount))

EwStart(r, cookie) ==
    /\ CanStart(r)
    /\ started' = started + 1
    /\ UNCHANGED <<store, hasNavIdCol, now, page>>
    /\ LET c0 == [IdleCall EXCEPT !.kind = "withdrawals", !.cookie = cookie]
       IN  IF ~requireAdminCookie(cookie)
           THEN /\ call' = [call EXCEPT ![r] = WithdrawalsCatch(c0, "Unauthorized")]
                /\ UNCHANGED faults
           ELSE \/ Fail(r, WithdrawalsCatch(c0, "backend error"))
                \/ /\ UNCHANGED faults
                   /\ \E navRow \in LatestNavRows(nav_snapshots) :
                        LET g == getNavAndTotalShares(navRow, investor_accounts)
                            c1 == [c0 EXCEPT !.nav = g.nav, !.navCreatedAt = g.navCreatedAt,
                                             !.totalShares = g.totalShares,
                                             !.sharePrice = g.sharePrice]
                        IN  call' = [call EXCEPT ![r] =
                                IF PriceUnavailable(g.sharePrice)
                                THEN WithdrawalsCatch(c1, "share_price unavailable (total_shares=0?)")
                                ELSE [c1 EXCEPT !.pc = "fetch"]]

\* the select of the PENDING withdrawals, in whatever order the store returns them
EwFetch(r) ==
    /\ call[r].kind = "withdrawals" /\ call[r].pc = "fetch"
    /\ UNCHANGED <<store, hasNavIdCol, now, started, page>>
    /\ \/ Fail(r, WithdrawalsCatch(call[r], "backend error"))
       \/ /\ UNCHANGED faults
          /\ \E pending \in SetToSeqs(PendingIds(investor_withdraw_requests)) :
               call' = [call EXCEPT ![r] =
                   IF pending = <<>>
                   THEN Respond(call[r], 200, "")
                   ELSE [call[r] EXCEPT !.pc = "loop", !.pending = pending, !.i = 1]]

EwLoop(r) ==
    /\ call[r].kind = "withdrawals" /\ call[r].pc = "loop"
    /\ UNCHANGED <<store, hasNavIdCol, now, started, page>>
    /\ LET c == call[r]
       IN  IF c.i > Len(c.pending)
           THEN /\ call' = [call EXCEPT ![r] = Respond(c, 200, "")]
                /\ UNCHANGED faults
           ELSE LET id     == c.pending[c.i]
                    w      == investor_withdraw_requests[id]
                    amount == NumberOrZero(w.amount)
                    skip(reason) ==
                        /\ call' = [call EXCEPT ![r] =
                               [c EXCEPT !.results = Append(@, FailResult(id, reason)),
                                         !.i = @ + 1]]
                        /\ UNCHANGED faults
                IN  IF InvalidAmount(amount) THEN skip("invalid amount")
                    ELSE \/ Fail(r, WithdrawalsCatch(c, "backend error"))
                         \/ IF w.user_id \notin DOMAIN investor_accounts
                            THEN skip("account not found")
                            ELSE IF InsufficientShares(
                                        NumberOrZero(investor_accounts[w.user_id].shares),
                                        BurnShares(amount, c.sharePrice))
                            THEN skip("insufficient shares")
                            ELSE /\ call' = [call EXCEPT ![r] =
                                        [c EXCEPT !.pc = "updAcc",
                                                  !.acct = investor_accounts[w.user_id]]]
                                 /\ UNCHANGED faults

EwUpdAcc(r) ==
    /\ call[r].kind = "withdrawals" /\ call[r].pc = "updAcc"
    /\ UNCHANGED <<nav_snapshots, investor_deposit_requests, investor_withdraw_requests,
                   principal_adjustments, hasNavIdCol, now, started, page>>
    /\ LET c      == call[r]
           w      == investor_withdraw_requests[c.pending[c.i]]
           amount == NumberOrZero(w.amount)
           newShares  == RSub(NumberOrZero(c.acct.shares), BurnShares(amount, c.sharePrice))
           newPending == NewPending(NumberOrZero(c.acct.pending_withdraw), amount)
       IN  \/ /\ Fail(r, WithdrawalsCatch(c, "backend error"))
              /\ UNCHANGED investor_accounts
           \/ /\ UNCHANGED faults
              /\ investor_accounts' =
                    IF w.user_id \in DOMAIN investor_accounts
                    THEN [investor_accounts EXCEPT ![w.user_id].shares = newShares,
                                                   ![w.user_id].pending_withdraw = newPending]
                    ELSE investor_accounts
              /\ call' = [call EXCEPT ![r].pc = "updReq"]

\* the update of the request to UNPAID, selected by id alone, and the ok entry
EwUpdReq(r) ==
    /\ call[r].kind = "withdrawals" /\ call[r].pc = "updReq"
    /\ UNCHANGED <<nav_snapshots, investor_accounts, investor_deposit_requests,
                   principal_adjustments, hasNavIdCol, now, started, page>>
    /\ LET c      == call[r]
           id     == c.pending[c.i]
           w      == investor_withdraw_requests[id]
           amount == NumberOrZero(w.amount)
           burnShares == BurnShares(amount, c.sharePrice)
       IN  \/ /\ Fail(r, WithdrawalsCatch(c, "backend error"))
              /\ UNCHANGED investor_withdraw_requests
           \/ /\ UNCHANGED faults
              /\ investor_withdraw_requests' =
                    [investor_withdraw_requests EXCEPT ![id].status = "UNPAID",
                                                       ![id].executed_at = Ts(now)]
              /\ call' = [call EXCEPT ![r] =
                    [c EXCEPT !.pc = "loop", !.i = @ + 1,
                              !.results = Append(@,
                                  [id |-> id, ok |-> TRUE, reason |-> "",
                                   amount |-> amount, shares |-> burnShares,
                                   new_shares |-> RSub(NumberOrZero(c.acct.shares), burnShares),
                                   new_principal |-> NaN,
                                   new_pending_withdraw |->
                                       NewPending(NumberOrZero(c.acct.pending_withdraw), amount)])]]

-----------------------------------------------------------------------------
(* Initial data store *)

NavRow(id, nav, shares, price, at) ==
    [id |-> id, total_nav |-> nav, total_shares |-> shares, share_price |-> price,
     created_at |-> at]

Acct(shares, principal, pending) ==
    [shares |-> shares, principal |-> principal, pending_withdraw |-> pending]

Dep(u, amount, at, status) ==
    [user_id |-> u, amount |-> amount, status |-> status, created_at |-> at,
     executed_at |-> NullTs, share_price_used |-> NaN, minted_shares |-> NaN,
     nav_snapshot_id |-> 0]

Wd(u, amount, at, status) ==
    [user_id |-> u, amount |-> amount, status |-> status, created_at |-> at,
     executed_at |-> NullTs]

\* 10 / 2
Half(n) == <<Q(n, 2), Q0, Q0>>

\* an older snapshot and the latest one: NAV 10, 5 shares, price 2
TwoSnapshots ==
    <<NavRow(1, R(4), R(4), R(1), Ts(0)), NavRow(2, R(10), R(5), R(2), Ts(2))>>

\* u1 and u2 hold 3 + 1 shares (live price 10 / 4), principal 2 + 1; u3 has no account
AccountsA(pending) == ("u1" :> Acct(R(3), R(2), pending)) @@ ("u2" :> Acct(R(1), R(1), Zero))

\* the fund has lost money: the principal paid in exceeds the NAV
AccountsOver == ("u1" :> Acct(R(3), R(12), Zero))

\* nobody holds a share yet
AccountsZero == ("u1" :> Acct(Zero, Zero, Zero))

DepositRows ==
    << Dep("u1", R(2), Ts(3), "PENDING"),
       Dep("u1", R(5), Ts(0), "PENDING"),
       Dep("u2", R(8), Ts(1), "PENDING"),
       Dep("u1", R(2), Ts(2), "PENDING"),
       Dep("u1", Num(Q(7, 1), Q(1, 2), Q0), Ts(2), "PENDING"),
       Dep("u1", Zero, Ts(3), "PENDING"),
       Dep("u3", R(2), Ts(1), "PENDING"),
       Dep("u1", R(2), NullTs, "PENDING"),
       Dep("u1", R(2), BadTs, "PENDING"),
       Dep("u1", R(5), Ts(0), "CANCELLED") >>

WithdrawRows ==
    << Wd("u1", R(5), Ts(1), "PENDING"),
       Wd("u1", R(10), Ts(1), "PENDING"),
       Wd("u2", Half(5), Ts(3), "PENDING"),
       Wd("u1", Num(Q(15, 2), Q0, Q(5, 4)), Ts(1), "PENDING"),
       Wd("u1", Num(Q(15, 2), Q0, Q(5, 1)), Ts(1), "PENDING"),
       Wd("u1", Zero, Ts(1), "PENDING"),
       Wd("u3", R(5), Ts(1), "PENDING"),
       Wd("u1", R(5), Ts(1), "CANCELLED") >>

\* the tables of n rows drawn from rows, one table for each multiset of rows
Tables(rows, n) ==
    {[k \in 1..n |-> rows[ix[k]]] :
        ix \in {f \in [1..n -> DOMAIN rows] : \A k \in 1..(n - 1) : f[k] <= f[k + 1]}}

\* every shape of the latest snapshot, and the empty table
SnapshotShapes ==
    {<<>>} \cup
    {<<NavRow(1, nav, shares, price, at)>> :
        nav \in {Zero, R(10)}, shares \in {NaN, Zero, R(5)},
        price \in {NaN, Zero, R(2), R(4)}, at \in {NullTs, Ts(2)}}

InitResolver ==
    /\ nav_snapshots \in SnapshotShapes
    /\ investor_accounts \in {AccountsA(Zero), AccountsZero}
    /\ investor_deposit_requests =
          <<Dep("u1", R(2), Ts(0), "PENDING"), Dep("u2", R(2), Ts(1), "PENDING")>>
    /\ investor_withdraw_requests = <<Wd("u1", R(5), Ts(1), "PENDING")>>
    /\ hasNavIdCol = TRUE

InitDeposits ==
    /\ nav_snapshots = TwoSnapshots
    /\ investor_accounts \in {AccountsA(Zero), AccountsOver}
    /\ investor_deposit_requests \in Tables(DepositRows, MaxDeposits)
    /\ investor_withdraw_requests = <<>>
    /\ hasNavIdCol \in BOOLEAN

InitWithdrawals ==
    /\ nav_snapshots = TwoSnapshots
    /\ investor_accounts \in {AccountsA(Zero), AccountsA(R(7))}
    /\ investor_deposit_requests = <<>>
    /\ investor_withdraw_requests \in Tables(WithdrawRows, MaxWithdrawals)
    /\ hasNavIdCol = TRUE

-----------------------------------------------------------------------------
(* The investor page and POST /api/admin/investor-deposit *)

\* the investor signed in on the page
SessionUser == "u1"

\* loadMyData: the statuses of the signed-in investor's requests as the page holds
\* them after a load ("" marks the rows of other investors, which it does not see)
LoadedView(deposits, withdrawals) ==
    [deposits    |-> [k \in 1..Len(deposits) |->
                         IF deposits[k].user_id = SessionUser
                         THEN deposits[k].status ELSE ""],
     withdrawals |-> [k \in 1..Len(withdrawals) |->
                         IF withdrawals[k].user_id = SessionUser
                         THEN withdrawals[k].status ELSE ""]]

\* the amounts an investor or the admin types in
SubmitAmounts == {R(2)}

\* a load of the page on its own (mount, or a change of session)
loadMyData ==
    /\ page # LoadedView(investor_deposit_requests, investor_withdraw_requests)
    /\ page' = LoadedView(investor_deposit_requests, investor_withdraw_requests)
    /\ UNCHANGED <<store, hasNavIdCol, now, call, faults, started>>

\* submitDeposit: insert a PENDING request, then loadMyData
submitDeposit(amount) ==
    /\ ~InvalidAmount(amount)
    /\ Len(investor_deposit_requests) < MaxDeposits
    /\ investor_deposit_requests' =
          Append(investor_deposit_requests, Dep(SessionUser, amount, Ts(now), "PENDING"))
    /\ page' = LoadedView(investor_deposit_requests', investor_withdraw_requests)
    /\ UNCHANGED <<nav_snapshots, investor_accounts, investor_withdraw_requests,
                   principal_adjustments, hasNavIdCol, now, call, faults, started>>

\* submitWithdraw: insert a PENDING request, then loadMyData
submitWithdraw(amount) ==
    /\ ~InvalidAmount(amount)
    /\ Len(investor_withdraw_requests) < MaxWithdrawals
    /\ investor_withdraw_requests' =
          Append(investor_withdraw_requests, Wd(SessionUser, amount, Ts(now), "PENDING"))
    /\ page' = LoadedView(investor_deposit_requests, investor_withdraw_requests')
    /\ UNCHANGED <<nav_snapshots, investor_accounts, investor_deposit_requests,
                   principal_adjustments, hasNavIdCol, now, call, faults, started>>

\* cancelDeposit: the status the page holds must be PENDING; the update selects
\* the row by id alone; then loadMyData
cancelDeposit(id) ==
    /\ id \in DOMAIN page.deposits /\ page.deposits[id] = "PENDING"
    /\ investor_deposit_requests' =
          [investor_deposit_requests EXCEPT ![id].status = "CANCELLED"]
    /\ page' = LoadedView(investor_deposit_requests', investor_withdraw_requests)
    /\ UNCHANGED <<nav_snapshots, investor_accounts, investor_withdraw_requests,
                   principal_adjustments, hasNavIdCol, now, call, faults, started>>

\* cancelWithdraw of the investors page: as cancelDeposit
cancelWithdraw(id) ==
    /\ id \in DOMAIN page.withdrawals /\ page.withdrawals[id] = "PENDING"
    /\ investor_withdraw_requests' =
          [investor_withdraw_requests EXCEPT ![id].status = "CANCELLED"]
    /\ page' = LoadedView(investor_deposit_requests, investor_withdraw_requests')
    /\ UNCHANGED <<nav_snapshots, investor_accounts, investor_deposit_requests,
                   principal_adjustments, hasNavIdCol, now, call, faults, started>>

\* cancelWithdraw of the dashboard page: no look at the status the page holds;
\* the update selects the row by id, user_id and status PENDING; then loadMyData
cancelWithdrawIfPending(id) ==
    /\ id \in DOMAIN investor_withdraw_requests
    /\ investor_withdraw_requests' =
          IF /\ investor_withdraw_requests[id].user_id = SessionUser
             /\ investor_withdraw_requests[id].status = "PENDING"
          THEN [investor_withdraw_requests EXCEPT ![id].status = "CANCELLED"]
          ELSE investor_withdraw_requests
    /\ page' = LoadedView(investor_deposit_requests, investor_withdraw_requests')
    /\ <<investor_withdraw_requests', page'>> # <<investor_withdraw_requests, page>>
    /\ UNCHANGED <<nav_snapshots, investor_accounts, investor_deposit_requests,
                   principal_adjustments, hasNavIdCol, now, call, faults, started>>

\* the catch clause of investor-deposit: 401 for "Unauthorized", else 500
InvestorDepositCatch(c, msg) == Respond(c, IF msg = "Unauthorized" THEN 401 ELSE 500, msg)

\* POST /api/admin/investor-deposit: the principal is added to the account first,
\* then the PENDING request is inserted
InvestorDeposit(r, cookie, user_id, amount) ==
    /\ CanStart(r)
    /\ started' = started + 1
    /\ UNCHANGED <<nav_snapshots, investor_withdraw_requests, principal_adjustments,
                   hasNavIdCol, now, page>>
    /\ LET c0 == [IdleCall EXCEPT !.kind = "investor-deposit", !.cookie = cookie]
           answer(status, error) ==
               /\ call' = [call EXCEPT ![r] = Respond(c0, status, error)]
               /\ UNCHANGED <<investor_accounts, investor_deposit_requests, faults>>
           thrown ==
               /\ Fail(r, InvestorDepositCatch(c0, "backend error"))
               /\ UNCHANGED <<investor_accounts, investor_deposit_requests>>
           newPrincipal == RAdd(NumberOrZero(investor_accounts[user_id].principal), amount)
           updated == [investor_accounts EXCEPT ![user_id].principal = newPrincipal]
       IN  IF ~requireAdminCookie(cookie)
           THEN /\ call' = [call EXCEPT ![r] = InvestorDepositCatch(c0, "Unauthorized")]
                /\ UNCHANGED <<investor_accounts, investor_deposit_requests, faults>>
           ELSE IF user_id = "" THEN answer(400, "user_id required")
           ELSE IF InvalidAmount(amount) THEN answer(400, "amount must be > 0")
           ELSE \/ thrown
                \/ IF user_id \notin DOMAIN investor_accounts
                   THEN answer(404, "investor account not found")
                   ELSE \/ thrown
                        \/ \* the account is updated and the insert fails
                           /\ Fail(r, InvestorDepositCatch(c0, "backend error"))
                           /\ investor_accounts' = updated
                           /\ UNCHANGED investor_deposit_requests
                        \/ /\ Len(investor_deposit_requests) < MaxDeposits
                           /\ investor_accounts' = updated
                           /\ investor_deposit_requests' =
                                 Append(investor_deposit_requests,
                                        Dep(user_id, amount, Ts(now), "PENDING"))
                           /\ call' = [call EXCEPT ![r] = Respond(c0, 200, "")]
                           /\ UNCHANGED faults

Init ==
    /\ InitResolver \/ InitDeposits \/ InitWithdrawals
    /\ principal_adjustments = <<>>
    /\ now = 5
    /\ call = [r \in Runs |-> IdleCall]
    /\ faults = 0
    /\ started = 0
    /\ page = LoadedView(investor_deposit_requests, investor_withdraw_requests)

Cookies == {"1", "none"}

Next ==
    \/ \E r \in SerialRuns, cookie \in Cookies : EdStart(r, cookie)
    \/ \E r \in SerialRuns : EdFetch(r)
    \/ \E r \in SerialRuns : EdLoop(r)
    \/ \E r \in SerialRuns : EdUpdAcc(r)
    \/ \E r \in SerialRuns : EdUpdReq(r)
    \/ \E r \in SerialRuns : EdInsAdj(r)
    \/ \E r \in SerialRuns, cookie \in Cookies : EwStart(r, cookie)
    \/ \E r \in SerialRuns : EwFetch(r)
    \/ \E r \in SerialRuns : EwLoop(r)
    \/ \E r \in SerialRuns : EwUpdAcc(r)
    \/ \E r \in SerialRuns : EwUpdReq(r)

Spec == Init /\ [][Next]_vars

\* the data store of the specification with the investor page: the two snapshots,
\* the accounts of u1 and u2, and at most one pending request of u1 in each table
InitLive ==
    /\ nav_snapshots = TwoSnapshots
    /\ investor_accounts = AccountsA(Zero)
    /\ investor_deposit_requests \in {<<>>, <<Dep("u1", R(2), Ts(1), "PENDING")>>}
    /\ investor_withdraw_requests \in {<<>>, <<Wd("u1", R(5), Ts(1), "PENDING")>>}
    /\ hasNavIdCol = TRUE
    /\ principal_adjustments = <<>>
    /\ now = 5
    /\ call = [r \in Runs |-> IdleCall]
    /\ faults = 0
    /\ started = 0
    /\ page = LoadedView(investor_deposit_requests, investor_withdraw_requests)

\* the three admin endpoints, one invocation at a time
NextAdmin ==
    \/ Next
    \/ \E r \in SerialRuns, cookie \in Cookies, user_id \in {"u1", "u3", ""},
          amount \in SubmitAmounts \cup {Zero} :
            InvestorDeposit(r, cookie, user_id, amount)

SpecAdmin == InitLive /\ [][NextAdmin]_vars

\* the admin endpoints interleaved step by step with the investor page
NextLive ==
    \/ NextAdmin
    \/ loadMyData
    \/ \E amount \in SubmitAmounts : submitDeposit(amount)
    \/ \E amount \in SubmitAmounts : submitWithdraw(amount)
    \/ \E id \in 1..MaxDeposits : cancelDeposit(id)
    \/ \E id \in 1..MaxWithdrawals : cancelWithdraw(id)
    \/ \E id \in 1..MaxWithdrawals : cancelWithdrawIfPending(id)

SpecLive == InitLive /\ [][NextLive]_vars

\* every divisor the handlers can form has a positive standard part
StandardDivisors ==
    LET live == SumOver([u \in DOMAIN investor_accounts |-> num(investor_accounts[u].shares)],
                        DOMAIN investor_accounts)
    IN  /\ IsPos(live) => live[1][1] > 0
        /\ \A r \in Runs : IsPos(call[r].sharePrice) => call[r].sharePrice[1][1] > 0

-----------------------------------------------------------------------------
(* Properties *)

Range(s) == {s[k] : k \in DOMAIN s}

\* the sum of principal over all investor accounts
AggregatePrincipal ==
    SumOver([u \in DOMAIN investor_accounts |-> investor_accounts[u].principal],
            DOMAIN investor_accounts)

\* the sum of shares over all investor accounts
LiveShares ==
    SumOver([u \in DOMAIN investor_accounts |-> investor_accounts[u].shares],
            DOMAIN investor_accounts)

\* run r is an execute-deposits invocation past its preconditions
InBatch(r) ==
    /\ call[r].kind = "deposits"
    /\ call[r].pc \in {"loop", "updAcc", "updReq", "insAdj"} \/
       (call[r].pc = "done" /\ call[r].status = 200)

(* C1: a deposit of amount A settled at the batch price P adds exactly A / P to the
   shares and exactly A to the principal of its account, and its request row
   becomes MINTED with minted_shares = A / P and share_price_used = P. *)
C1_SettleMintsAmountOverPrice ==
    [][\A r \in Runs :
        LET c == call[r]
        IN  c.kind = "deposits" /\ c.pc \in {"updAcc", "updReq"} =>
            LET id == c.pending[c.i]
                d  == investor_deposit_requests[id]
                u  == d.user_id
                A  == d.amount
                P  == c.sharePrice
            IN  /\ (c.pc = "updAcc" /\ call'[r].pc = "updReq") =>
                      /\ investor_accounts'[u].shares =
                            RAdd(investor_accounts[u].shares, RDiv(A, P))
                      /\ investor_accounts'[u].principal =
                            RAdd(investor_accounts[u].principal, A)
                /\ (c.pc = "updReq" /\ call'[r].pc = "insAdj") =>
                      /\ d.status = "PENDING"
                      /\ investor_deposit_requests'[id].status = "MINTED"
                      /\ investor_deposit_requests'[id].minted_shares = RDiv(A, P)
                      /\ investor_deposit_requests'[id].share_price_used = P
                      /\ investor_accounts[u].shares = RAdd(c.acct.shares, RDiv(A, P))
                      /\ investor_accounts[u].principal = RAdd(c.acct.principal, A)
       ]_vars

\* a deposit is MINTED at a price other than 1 and its account holds the new balance
C1_Witness ==
    \E r \in Runs : \E k \in DOMAIN call[r].results :
        LET res == call[r].results[k]
            d   == investor_deposit_requests[res.id]
        IN  /\ call[r].kind = "deposits" /\ res.ok
            /\ d.status = "MINTED"
            /\ d.minted_shares = RDiv(d.amount, call[r].sharePrice)
            /\ d.minted_shares # d.amount
            /\ investor_accounts[d.user_id].principal = res.new_principal
            /\ RGt(investor_accounts[d.user_id].shares, R(3))

(* C2 (as claimed): during and after an execute-deposits batch against a snapshot
   with a positive NAV the sum of principal over all accounts never exceeds the
   snapshot's total_nav + 1e-6. *)
C2_PrincipalNeverAboveNav ==
    \A r \in Runs :
        InBatch(r) /\ IsPos(call[r].nav) =>
            RLe(AggregatePrincipal, RAdd(call[r].nav, EPS))

(* C2 (amended): during and after an execute-deposits batch run on its own the sum
   of principal never exceeds the larger of its value at the start of the batch
   and total_nav + 1e-6: no settled deposit pushes it above total_nav + 1e-6. *)
C2_BatchKeepsPrincipalCap ==
    \A r \in Runs :
        call[r].kind = "deposits" /\ IsFinite(call[r].totalPrincipal) =>
            RLe(AggregatePrincipal,
                RMax(call[r].totalPrincipal, RAdd(call[r].nav, EPS)))

\* a batch that started below the NAV has settled a deposit that fills the cap
\* to within the tolerance
C2_Witness ==
    \E r \in Runs :
        /\ InBatch(r)
        /\ RLe(call[r].totalPrincipal, call[r].nav)
        /\ \E k \in DOMAIN call[r].results : call[r].results[k].ok
        /\ RGt(AggregatePrincipal, call[r].nav)
        /\ RLe(AggregatePrincipal, RAdd(call[r].nav, EPS))

CapReason == "blocked: total principal would exceed NAV"

\* the principal the loop of invocation c has accumulated before its k-th deposit:
\* the sum read at the start plus the amounts settled earlier in the batch
RunningBefore(c, k) ==
    RAdd(c.totalPrincipal,
         SumOver([j \in 1..(k - 1) |->
                     IF c.results[j].ok THEN c.results[j].amount ELSE Zero],
                 1..(k - 1)))

(* C3 (as claimed): once a deposit of a batch has been rejected for the cap, no
   later deposit of that batch is settled. *)
C3_NothingSettledAfterCapRejection ==
    \A r \in Runs :
        call[r].kind = "deposits" =>
            \A j, k \in DOMAIN call[r].results :
                j < k /\ call[r].results[j].reason = CapReason => ~call[r].results[k].ok

(* C3 (amended): a batch handles its pending deposits in ascending created_at
   order, and each deposit with a valid amount and date is rejected for the cap
   exactly when the principal at the start of the batch plus the amounts settled
   earlier in the batch plus its own amount exceeds total_nav + 1e-6; a rejected
   deposit uses up no room, so a later deposit that fits is still accepted. *)
C3_CapDecidedPerDeposit ==
    \A r \in Runs :
        LET c == call[r]
        IN  c.kind = "deposits" =>
            /\ \A j, k \in DOMAIN c.pending :
                   LET tj == investor_deposit_requests[c.pending[j]].created_at
                       tk == investor_deposit_requests[c.pending[k]].created_at
                   IN  j < k /\ TsFinite(tj) /\ TsFinite(tk) => ~TsLt(tk, tj)
            /\ \A k \in DOMAIN c.results :
                   LET d == investor_deposit_requests[c.results[k].id]
                       over == RGt(RAdd(RunningBefore(c, k), d.amount), RAdd(c.nav, EPS))
                   IN  /\ c.results[k].id = c.pending[k]
                       /\ c.results[k].reason = CapReason <=>
                              /\ IsPos(d.amount)
                              /\ TsFinite(d.created_at) /\ ~TsLt(c.navCreatedAt, d.created_at)
                              /\ over
                       /\ c.results[k].ok => ~over

\* a batch has rejected a deposit for the cap and settled a later one
C3_Witness ==
    \E r \in Runs : \E j, k \in DOMAIN call[r].results :
        /\ call[r].kind = "deposits" /\ j < k
        /\ call[r].results[j].reason = CapReason
        /\ call[r].results[k].ok
        /\ TsLt(investor_deposit_requests[call[r].results[j].id].created_at,
                investor_deposit_requests[call[r].results[k].id].created_at)

\* deposit row d was created after the snapshot of invocation c, or has no usable
\* created_at
CreatedAfterSnapshot(c, d) ==
    IsMissing(d.created_at) \/ ~TsFinite(d.created_at) \/ TsLt(c.navCreatedAt, d.created_at)

(* C4 (as claimed): every deposit created after the snapshot of the batch, or
   without a usable created_at, that the batch has handled is reported with the
   nav-too-old reason. *)
C4_LateDepositReportedNavTooOld ==
    \A r \in Runs :
        LET c == call[r]
        IN  c.kind = "deposits" =>
            \A k \in DOMAIN c.results :
                CreatedAfterSnapshot(c, investor_deposit_requests[c.results[k].id]) =>
                    c.results[k].reason = "nav too old"

(* C4 (amended): a pending deposit created after the snapshot of the batch, or
   without a usable created_at, is never settled by the batch and stays PENDING
   whatever room the cap leaves; when the batch handles it, it is reported as
   failed, with the nav-too-old reason if its amount is a finite number > 0 and
   with the invalid-amount reason otherwise. *)
C4_LateDepositNeverSettled ==
    \A r \in Runs :
        LET c == call[r]
        IN  c.kind = "deposits" =>
            /\ \A k \in DOMAIN c.pending :
                   LET d == investor_deposit_requests[c.pending[k]]
                   IN  CreatedAfterSnapshot(c, d) =>
                          /\ d.status = "PENDING"
                          /\ ~(c.pc \in {"updAcc", "updReq", "insAdj"} /\ c.i = k)
            /\ \A k \in DOMAIN c.results :
                   LET d == investor_deposit_requests[c.results[k].id]
                   IN  CreatedAfterSnapshot(c, d) =>
                          /\ ~c.results[k].ok
                          /\ c.results[k].reason =
                                 IF IsPos(d.amount) THEN "nav too old" ELSE "invalid amount"

\* a finished batch that settled one deposit and turned down a later-dated one
\* that the cap would have let through
C4_Witness ==
    \E r \in Runs : \E j, k \in DOMAIN call[r].results :
        LET c == call[r]
            d == investor_deposit_requests[c.results[k].id]
        IN  /\ c.kind = "deposits" /\ c.pc = "done" /\ c.status = 200
            /\ c.results[j].ok
            /\ TsLt(c.navCreatedAt, d.created_at)
            /\ c.results[k].reason = "nav too old"
            /\ d.status = "PENDING"
            /\ ~ExceedsNav(c.principalRunning, d.amount, c.nav)

\* the snapshot row invocation c resolved its price from: <<>> or <<row>>
SnapshotOf(c) ==
    LET ks == {k \in DOMAIN nav_snapshots : nav_snapshots[k].id = c.navId}
    IN  IF ks = {} THEN <<>> ELSE <<nav_snapshots[CHOOSE k \in ks : TRUE]>>

\* run r is an execute-deposits invocation that has resolved its price
HasResolved(r) == call[r].kind = "deposits" /\ call[r].sharePriceSource # ""

\* run r has resolved its price and has not gone further
JustResolved(r) ==
    /\ HasResolved(r)
    /\ call[r].pc = "fetch" \/ (call[r].pc = "done" /\ call[r].status = 400)

(* C5: when the latest snapshot has a finite share_price > 0 the resolver of
   execute-deposits returns exactly that value, whatever total_nav, total_shares
   and the live sum of account shares are. *)
C5_StoredSharePriceReturned ==
    \A r \in Runs :
        HasResolved(r) /\ IsPos(Field(SnapshotOf(call[r]), "share_price")) =>
            /\ call[r].sharePrice = Field(SnapshotOf(call[r]), "share_price")
            /\ call[r].sharePriceSource = "nav_snapshots.share_price"

\* the stored price was returned where both recomputations give another value
C5_Witness ==
    \E r \in Runs :
        LET row == SnapshotOf(call[r])
        IN  /\ JustResolved(r)
            /\ call[r].sharePrice = R(4)
            /\ Field(row, "share_price") = R(4)
            /\ IsPos(Field(row, "total_shares")) /\ IsPos(call[r].nav)
            /\ RDiv(call[r].nav, Field(row, "total_shares")) # R(4)
            /\ IsPos(LiveShares) /\ RDiv(call[r].nav, LiveShares) # R(4)

(* C6: when the latest snapshot has no usable share_price but total_shares > 0
   and total_nav > 0, the resolver returns the snapshot's total_nav /
   total_shares and not the quotient by the live sum of account shares. *)
C6_SnapshotQuotientReturned ==
    \A r \in Runs :
        LET row == SnapshotOf(call[r])
        IN  /\ HasResolved(r)
            /\ ~IsPos(Field(row, "share_price"))
            /\ IsPos(Field(row, "total_shares")) /\ IsPos(num(Field(row, "total_nav")))
            => /\ call[r].sharePrice =
                     RDiv(num(Field(row, "total_nav")), Field(row, "total_shares"))
               /\ call[r].sharePriceSource = "nav_snapshots.total_nav/total_shares"

\* the snapshot quotient was returned where the live sum gives another value
C6_Witness ==
    \E r \in Runs :
        LET row == SnapshotOf(call[r])
        IN  /\ JustResolved(r)
            /\ call[r].sharePriceSource = "nav_snapshots.total_nav/total_shares"
            /\ ~IsPos(Field(row, "share_price"))
            /\ call[r].sharePrice = R(2)
            /\ IsPos(LiveShares) /\ RDiv(call[r].nav, LiveShares) # R(2)

(* C7: when neither the stored share_price nor the snapshot's total_nav /
   total_shares yields a price, the resolver returns total_nav divided by the
   live sum of account shares if that sum is > 0 and no price otherwise; the
   source it reports is the first of the three, in this order, that succeeds. *)
C7_LiveSumIsLastResort ==
    \A r \in Runs :
        LET row    == SnapshotOf(call[r])
            stored == IsPos(Field(row, "share_price"))
            quot   == IsPos(Field(row, "total_shares")) /\ IsPos(num(Field(row, "total_nav")))
        IN  JustResolved(r) =>
            /\ call[r].sharePriceSource = "nav_snapshots.share_price" <=> stored
            /\ call[r].sharePriceSource = "nav_snapshots.total_nav/total_shares" <=>
                   ~stored /\ quot
            /\ call[r].sharePriceSource = "fallback(nav/totalSharesFromAccounts)" <=>
                   ~stored /\ ~quot
            /\ ~stored /\ ~quot =>
                   call[r].sharePrice =
                       IF IsPos(LiveShares)
                       THEN RDiv(num(Field(row, "total_nav")), LiveShares) ELSE NaN

\* the live sum priced a batch: NAV 10 over 4 live shares
C7_Witness ==
    \E r \in Runs :
        /\ JustResolved(r) /\ call[r].pc = "fetch"
        /\ call[r].sharePriceSource = "fallback(nav/totalSharesFromAccounts)"
        /\ LiveShares = R(4)
        /\ call[r].sharePrice = Num(Q(5, 2), Q0, Q0)

(* C8: execute-deposits settles nothing unless the created_at of the latest
   snapshot is known and the resolved price is a finite number > 0: a call that
   resolves without them ends with status 400 and the error nav_created_at
   missing, respectively share_price unavailable, and leaves every table as it
   was; every write of a call is made under both preconditions. *)
C8_NoSettlementWithoutPreconditions ==
    [][\A r \in Runs :
        /\ (call[r].pc \in {"idle", "done"} /\ call'[r] # call[r]
                /\ call'[r].kind = "deposits" /\ call'[r].sharePriceSource # "") =>
              /\ store' = store
              /\ IF IsMissing(call'[r].navCreatedAt)
                 THEN /\ call'[r].pc = "done" /\ call'[r].status = 400
                      /\ call'[r].error = "nav_created_at missing"
                 ELSE IF ~IsPos(call'[r].sharePrice)
                 THEN /\ call'[r].pc = "done" /\ call'[r].status = 400
                      /\ call'[r].error = "share_price unavailable"
                 ELSE call'[r].pc = "fetch"
        /\ (call[r].kind = "deposits" /\ call[r].pc \notin {"idle", "done"}) =>
              /\ ~IsMissing(call[r].navCreatedAt) /\ IsPos(call[r].sharePrice)
        /\ (call[r].kind = "deposits" /\ call[r].pc = "done" /\ call[r].status = 400) =>
              call[r].results = <<>>
       ]_vars

\* a call found a dated snapshot without a price and answered 400, with the
\* pending deposits and the accounts untouched
C8_Witness ==
    \E r \in Runs :
        /\ call[r].kind = "deposits" /\ call[r].pc = "done" /\ call[r].status = 400
        /\ call[r].error = "share_price unavailable"
        /\ TsFinite(call[r].navCreatedAt)
        /\ call[r].sharePrice = Zero
        /\ PendingIds(investor_deposit_requests) # {}
        /\ principal_adjustments = <<>>

(* C9: the share price of an execute-deposits call is fixed when the call
   resolves it, before its first write, and every deposit the call settles is
   MINTED with that price as share_price_used, even though each settlement
   changes the live sum of account shares. *)
C9_OnePricePerBatch ==
    [][\A r \in Runs :
        (call[r].kind = "deposits" /\ call[r].pc \notin {"idle", "done"}) =>
            /\ call'[r].sharePrice = call[r].sharePrice
            /\ call[r].pc = "fetch" => call[r].results = <<>> /\ store' = store
            /\ \A k \in DOMAIN call'[r].results :
                   call'[r].results[k].ok =>
                       LET d == investor_deposit_requests'[call'[r].results[k].id]
                       IN  /\ d.status = "MINTED"
                           /\ d.share_price_used = call[r].sharePrice
                           /\ d.minted_shares = RDiv(d.amount, call[r].sharePrice)
       ]_vars

\* two deposits settled in one batch priced from the live sum carry the price
\* resolved at the start, which the live sum no longer gives
C9_Witness ==
    \E r \in Runs : \E j, k \in DOMAIN call[r].results :
        LET c == call[r]
        IN  /\ c.kind = "deposits" /\ j < k
            /\ c.sharePriceSource = "fallback(nav/totalSharesFromAccounts)"
            /\ c.results[j].ok /\ c.results[k].ok
            /\ investor_deposit_requests[c.results[j].id].share_price_used = c.sharePrice
            /\ investor_deposit_requests[c.results[k].id].share_price_used = c.sharePrice
            /\ IsPos(LiveShares) /\ RDiv(c.nav, LiveShares) # c.sharePrice

\* run r is at the head of the withdrawal loop with a request of valid amount
\* whose account exists
AtWithdrawal(r) ==
    /\ call[r].kind = "withdrawals" /\ call[r].pc = "loop"
    /\ call[r].i <= Len(call[r].pending)
    /\ LET w == investor_withdraw_requests[call[r].pending[call[r].i]]
       IN  IsPos(w.amount) /\ w.user_id \in DOMAIN investor_accounts

\* the shares the request at the head of the loop of run r would burn
BurnAt(r) ==
    RDiv(investor_withdraw_requests[call[r].pending[call[r].i]].amount, call[r].sharePrice)

\* the shares held by the account of the request at the head of the loop of run r
HeldAt(r) ==
    investor_accounts[investor_withdraw_requests[call[r].pending[call[r].i]].user_id].shares

\* the step of run r turns its current request down for insufficient shares and
\* writes nothing
RejectsInsufficient(r) ==
    /\ call'[r].pc = "loop" /\ call'[r].i = call[r].i + 1
    /\ Len(call'[r].results) = Len(call[r].results) + 1
    /\ call'[r].results[Len(call'[r].results)].id = call[r].pending[call[r].i]
    /\ ~call'[r].results[Len(call'[r].results)].ok
    /\ call'[r].results[Len(call'[r].results)].reason = "insufficient shares"
    /\ store' = store

(* C10 (as claimed): a pending withdrawal whose burn_shares exceeds the shares of
   its account is rejected for insufficient shares and nothing is written. *)
C10_RejectedWhenBurnExceedsShares ==
    [][\A r \in Runs :
        (AtWithdrawal(r) /\ RGt(BurnAt(r), HeldAt(r)) /\ call'[r] # call[r]
            /\ call'[r].pc # "done") => RejectsInsufficient(r)
       ]_vars

(* C10 (amended): a pending withdrawal whose burn_shares exceeds the shares of
   its account by more than 1e-12 is rejected for insufficient shares and
   nothing is written: shares, pending_withdraw and the PENDING status stay as
   they were; an excess of at most 1e-12 is let through. *)
C10_RejectedBeyondTolerance ==
    [][\A r \in Runs :
        /\ (AtWithdrawal(r) /\ call'[r] # call[r] /\ call'[r].pc # "done") =>
              (RGt(BurnAt(r), RAdd(HeldAt(r), Pico)) <=> RejectsInsufficient(r))
        /\ call'[r].kind = "withdrawals" =>
              \A k \in DOMAIN call'[r].results :
                  call'[r].results[k].reason = "insufficient shares" =>
                      investor_withdraw_requests'[call'[r].results[k].id].status = "PENDING"
       ]_vars

\* a withdrawal that needs 2e-12 shares more than the 3 its account holds was
\* rejected and is still PENDING
C10_Witness ==
    \E r \in Runs : \E k \in DOMAIN call[r].results :
        LET c    == call[r]
            w    == investor_withdraw_requests[c.results[k].id]
            held == investor_accounts[w.user_id].shares
            burn == RDiv(w.amount, c.sharePrice)
        IN  /\ c.kind = "withdrawals"
            /\ c.results[k].reason = "insufficient shares"
            /\ w.status = "PENDING"
            /\ held = R(3)
            /\ RGt(burn, RAdd(held, Pico)) /\ RLt(burn, RAdd(held, Micro))

(* C11: a withdrawal of amount A settled at the batch price P takes exactly A / P
   from the shares of its account, sets pending_withdraw to
   max(0, pending_withdraw - A), and its request row becomes UNPAID with
   executed_at set. *)
C11_SettleBurnsAmountOverPrice ==
    [][\A r \in Runs :
        LET c == call[r]
        IN  c.kind = "withdrawals" /\ c.pc \in {"updAcc", "updReq"} =>
            LET id == c.pending[c.i]
                w  == investor_withdraw_requests[id]
                u  == w.user_id
                A  == w.amount
                P  == c.sharePrice
            IN  /\ (c.pc = "updAcc" /\ call'[r].pc = "updReq") =>
                      /\ investor_accounts'[u].shares =
                            RSub(investor_accounts[u].shares, RDiv(A, P))
                      /\ investor_accounts'[u].pending_withdraw =
                            RMax(Zero, RSub(investor_accounts[u].pending_withdraw, A))
                      /\ investor_accounts'[u].principal = investor_accounts[u].principal
                /\ (c.pc = "updReq" /\ call'[r].pc = "loop") =>
                      /\ w.status = "PENDING"
                      /\ investor_withdraw_requests'[id].status = "UNPAID"
                      /\ investor_withdraw_requests'[id].executed_at = Ts(now)
                      /\ investor_accounts[u].shares = RSub(c.acct.shares, RDiv(A, P))
                      /\ investor_accounts[u].pending_withdraw =
                            RMax(Zero, RSub(c.acct.pending_withdraw, A))
       ]_vars

\* a withdrawal larger than the recorded pending_withdraw is UNPAID: 2 shares
\* burned at price 5/2 and pending_withdraw floored at zero
C11_Witness ==
    \E r \in Runs : \E k \in DOMAIN call[r].results :
        LET res == call[r].results[k]
            w   == investor_withdraw_requests[res.id]
        IN  /\ call[r].kind = "withdrawals" /\ res.ok
            /\ w.status = "UNPAID" /\ TsFinite(w.executed_at)
            /\ w.amount = R(5) /\ res.shares = R(2)
            /\ investor_accounts[w.user_id].shares = R(1)
            /\ investor_accounts[w.user_id].pending_withdraw = Zero

(* C12: no request status ever reverts: a deposit request that is CANCELLED or
   MINTED keeps its status, and a withdrawal request that is CANCELLED or UNPAID
   never returns to PENDING nor goes from CANCELLED to UNPAID. *)
C12_StatusNeverReverts ==
    [][/\ \A id \in DOMAIN investor_deposit_requests :
             investor_deposit_requests[id].status \in {"CANCELLED", "MINTED"} =>
                 investor_deposit_requests'[id].status = investor_deposit_requests[id].status
       /\ \A id \in DOMAIN investor_withdraw_requests :
             /\ investor_withdraw_requests[id].status \in {"CANCELLED", "UNPAID"} =>
                    investor_withdraw_requests'[id].status # "PENDING"
             /\ investor_withdraw_requests[id].status = "CANCELLED" =>
                    investor_withdraw_requests'[id].status # "UNPAID"
      ]_vars

(* C13: a cancellation sets a request to CANCELLED only if its stored status is
   PENDING when the write is made; on a request that is MINTED, UNPAID, PAID or
   CANCELLED it changes nothing, also when the page still holds PENDING for it. *)
C13_CancelOnlyWhilePending ==
    [][/\ \A id \in DOMAIN investor_deposit_requests :
             (/\ call' = call
              /\ investor_deposit_requests'[id].status = "CANCELLED"
              /\ investor_deposit_requests[id].status # "CANCELLED") =>
                 investor_deposit_requests[id].status = "PENDING"
       /\ \A id \in DOMAIN investor_withdraw_requests :
             (/\ call' = call
              /\ investor_withdraw_requests'[id].status = "CANCELLED"
              /\ investor_withdraw_requests[id].status # "CANCELLED") =>
                 investor_withdraw_requests[id].status = "PENDING"
      ]_vars

(* C14: a failure on one request of a settlement batch is recorded in the result
   list and does not block the others: a batch that has selected its pending
   requests ends with one entry in the result list for each of them. *)
C14_EveryPendingRequestExamined ==
    \A r \in Runs :
        (/\ call[r].kind \in {"deposits", "withdrawals"}
         /\ call[r].pc = "done"
         /\ call[r].pending # <<>>) =>
            Len(call[r].results) = Len(call[r].pending)

\* the sum of the deltas of all principal_adjustments rows
AdjustedTotal ==
    SumOver([k \in DOMAIN principal_adjustments |-> principal_adjustments[k].delta],
            DOMAIN principal_adjustments)

\* the sum of the amounts of all MINTED deposits
MintedTotal ==
    SumOver([k \in DOMAIN investor_deposit_requests |->
                IF investor_deposit_requests[k].status = "MINTED"
                THEN investor_deposit_requests[k].amount ELSE Zero],
            DOMAIN investor_deposit_requests)

(* C15: every deposit turned MINTED has exactly one principal_adjustments row,
   with delta equal to its amount and the current month, and a rejected deposit
   has none: whenever no settlement is between its request write and its
   adjustment write, the deltas sum to the amounts of the MINTED deposits. *)
C15_AdjustmentsMatchMintedDeposits ==
    (\A r \in Runs : call[r].pc # "insAdj") =>
        /\ AdjustedTotal = MintedTotal
        /\ \A k \in DOMAIN investor_deposit_requests :
               Cardinality({j \in DOMAIN principal_adjustments :
                               principal_adjustments[j].deposit_id = k}) =
               IF investor_deposit_requests[k].status = "MINTED" THEN 1 ELSE 0
        /\ \A j \in DOMAIN principal_adjustments :
               /\ principal_adjustments[j].month = monthKeyNow(now)
               /\ principal_adjustments[j].delta =
                      investor_deposit_requests[principal_adjustments[j].deposit_id].amount

(* C16: every request that a settlement moves out of PENDING, a deposit to MINTED
   or a withdrawal to UNPAID, is settled against a snapshot whose created_at is
   greater than or equal to the created_at of the request. *)
C16_SettledAgainstNewerSnapshot ==
    [][\A r \in Runs :
        /\ call[r].kind = "deposits" =>
              \A id \in DOMAIN investor_deposit_requests :
                  (/\ investor_deposit_requests[id].status = "PENDING"
                   /\ investor_deposit_requests'[id].status = "MINTED") =>
                      /\ TsFinite(call[r].navCreatedAt)
                      /\ TsFinite(investor_deposit_requests[id].created_at)
                      /\ ~TsLt(call[r].navCreatedAt, investor_deposit_requests[id].created_at)
        /\ call[r].kind = "withdrawals" =>
              \A id \in DOMAIN investor_withdraw_requests :
                  (/\ investor_withdraw_requests[id].status = "PENDING"
                   /\ investor_withdraw_requests'[id].status = "UNPAID"
                   /\ TsFinite(call[r].navCreatedAt)
                   /\ TsFinite(investor_withdraw_requests[id].created_at)) =>
                      ~TsLt(call[r].navCreatedAt, investor_withdraw_requests[id].created_at)
       ]_vars

(* C17: a call to execute-deposits, execute-withdrawals or investor-deposit
   without the admin cookie mf_admin = "1" is answered 401 and reads and writes
   no row: the tables stay as they are and the invocation holds nothing read
   from them. *)
C17_NoCookieNoAccess ==
    [][\A r \in Runs :
        (/\ call'[r] # call[r]
         /\ call'[r].kind \in {"deposits", "withdrawals", "investor-deposit"}
         /\ call'[r].cookie # "1") =>
            /\ call[r].pc \in {"idle", "done"}
            /\ store' = store
            /\ call'[r] = [IdleCall EXCEPT !.kind = call'[r].kind,
                                           !.cookie = call'[r].cookie,
                                           !.pc = "done", !.status = 401,
                                           !.error = "Unauthorized"]
       ]_vars

\* investor-deposit was called without the cookie: 401, and the account of u1
\* and its pending deposit are as before
C17_Witness ==
    \E r \in Runs :
        /\ call[r].kind = "investor-deposit" /\ call[r].cookie = "none"
        /\ call[r].pc = "done" /\ call[r].status = 401
        /\ investor_accounts["u1"].principal = R(2)
        /\ Len(investor_deposit_requests) = 1
        /\ investor_deposit_requests[1].status = "PENDING"

(* C18: an admin endpoint answers 401 only to a call without a valid admin
   session: a data-store error or an unavailable share price during an
   authorised settlement call is never reported as 401. *)
C18_Only401WhenUnauthorised ==
    \A r \in Runs :
        call[r].pc = "done" /\ call[r].status = 401 => call[r].cookie # "1"

(* C19: the principal of an account increases only when one of its deposits is
   settled: every step without a data-store error that changes the principal of
   an account is the account write of an execute-deposits run settling a deposit of that account, and adds
   the amount of that deposit. *)
C19_PrincipalMovesOnlyOnSettlement ==
    [][\A u \in DOMAIN investor_accounts :
        (/\ faults' = faults
         /\ investor_accounts'[u].principal # investor_accounts[u].principal) =>
            \E r \in Runs :
                /\ call[r].kind = "deposits" /\ call[r].pc = "updAcc"
                /\ LET d == investor_deposit_requests[call[r].pending[call[r].i]]
                   IN  /\ d.user_id = u
                       /\ investor_accounts'[u].principal =
                             RAdd(investor_accounts[u].principal, d.amount)
       ]_vars

\* the sum of the amounts of the PENDING withdrawals of account u in table w
PendingWithdrawals(w, u) ==
    SumOver([k \in DOMAIN w |->
                IF w[k].user_id = u /\ w[k].status = "PENDING" THEN w[k].amount ELSE Zero],
            DOMAIN w)

\* pending_withdraw of every account in a equals its PENDING withdrawals in w
TracksPending(a, w) ==
    \A u \in DOMAIN a : a[u].pending_withdraw = PendingWithdrawals(w, u)

(* C20: pending_withdraw tracks the outstanding withdrawals: a submission, a
   cancellation or a completed settlement that starts where pending_withdraw of
   every account equals the sum of its PENDING withdrawals ends in such a state. *)
C20_PendingWithdrawTracksRequests ==
    [][(/\ TracksPending(investor_accounts, investor_withdraw_requests)
        /\ \A r \in Runs : call'[r].pc # "updReq") =>
            TracksPending(investor_accounts', investor_withdraw_requests')
      ]_vars

-----------------------------------------------------------------------------
(* Concurrent invocations of the two settlement endpoints *)

\* the data store of the concurrent specification: the two snapshots (NAV 10), the
\* accounts of u1 and u2 (aggregate principal 3), one pending deposit of 4 and one
\* pending withdrawal of 5, both of u1
InitConcurrent ==
    /\ nav_snapshots = TwoSnapshots
    /\ investor_accounts = AccountsA(Zero)
    /\ investor_deposit_requests = <<Dep("u1", R(4), Ts(1), "PENDING")>>
    /\ investor_withdraw_requests = <<Wd("u1", R(5), Ts(1), "PENDING")>>
    /\ hasNavIdCol = TRUE
    /\ principal_adjustments = <<>>
    /\ now = 5
    /\ call = [r \in Runs |-> IdleCall]
    /\ faults = 0
    /\ started = 0
    /\ page = LoadedView(investor_deposit_requests, investor_withdraw_requests)

\* two requests served at the same time: the steps of the two handlers interleave
\* at every await
NextConcurrent ==
    \/ \E r \in Runs : EdStart(r, "1")
    \/ \E r \in Runs : EdFetch(r)
    \/ \E r \in Runs : EdLoop(r)
    \/ \E r \in Runs : EdUpdAcc(r)
    \/ \E r \in Runs : EdUpdReq(r)
    \/ \E r \in Runs : EdInsAdj(r)
    \/ \E r \in Runs : EwStart(r, "1")
    \/ \E r \in Runs : EwFetch(r)
    \/ \E r \in Runs : EwLoop(r)
    \/ \E r \in Runs : EwUpdAcc(r)
    \/ \E r \in Runs : EwUpdReq(r)

SpecConcurrent == InitConcurrent /\ [][NextConcurrent]_vars

-----------------------------------------------------------------------------
(* Properties of concurrent invocations *)

\* run r handles, in this step, a deposit that has passed the amount and the
\* forward-pricing checks, and no backend error occurs
DecidesCap(r) ==
    LET c == call[r]
    IN  /\ c.kind = "deposits" /\ c.pc = "loop" /\ c.i <= Len(c.pending)
        /\ call'[r] # c /\ faults' = faults
        /\ ~InvalidAmount(num(investor_deposit_requests[c.pending[c.i]].amount))
        /\ ~NavTooOld(c.navCreatedAt, investor_deposit_requests[c.pending[c.i]].created_at)

\* the step of run r rejects the deposit at hand for the cap
RejectsForCap(r) ==
    /\ call'[r].pc = "loop"
    /\ Len(call'[r].results) = Len(call[r].results) + 1
    /\ call'[r].results[Len(call'[r].results)].reason = CapReason

(* C21: nothing excludes two execute-deposits invocations from each other. Each
   one decides the cap on the aggregate principal it read at its own start plus
   the amounts it has settled itself, whatever the other invocation has written
   to the accounts since; so both can read the same starting principal, both find
   room, both commit, and the aggregate principal ends above total_nav + 1e-6. *)
C21_CapDecidedOnOwnReading ==
    [][\A r \in Runs :
        DecidesCap(r) =>
            LET c == call[r]
                amount == num(investor_deposit_requests[c.pending[c.i]].amount)
            IN  RejectsForCap(r) <=>
                    RGt(RAdd(RunningBefore(c, c.i), amount), RAdd(c.nav, EPS))]_vars

\* both invocations read the same aggregate principal, both settled a deposit,
\* and the accounts now hold more principal than total_nav + 1e-6
C21_Witness ==
    /\ \A r \in Runs :
          /\ call[r].kind = "deposits" /\ call[r].pc = "done" /\ call[r].status = 200
          /\ \E k \in DOMAIN call[r].results : call[r].results[k].ok
    /\ call["a"].totalPrincipal = call["b"].totalPrincipal
    /\ RLe(call["a"].totalPrincipal, call["a"].nav)
    /\ RGt(AggregatePrincipal, RAdd(call["a"].nav, EPS))

-----------------------------------------------------------------------------
(* Properties of the settlement batches, continued *)

\* S: the amounts of the deposits invocation c has settled before its k-th one
SettledBefore(c, k) ==
    SumOver([j \in 1..(k - 1) |->
                IF c.results[j].ok
                THEN num(investor_deposit_requests[c.pending[j]].amount) ELSE Zero],
            1..(k - 1))

(* C22: a deposit that has passed the amount and the forward-pricing checks is
   rejected for the cap exactly when P0 + S + amount > total_nav + 1e-6, where P0
   is the aggregate principal read when the batch started and S is the sum of the
   amounts of the deposits handled earlier in the batch (none created later than
   this one) that were settled; a rejection leaves S as it was. *)
C22_CapRejectsExactlyAboveNav ==
    [][\A r \in Runs :
        DecidesCap(r) =>
            LET c  == call[r]
                d  == investor_deposit_requests[c.pending[c.i]]
                P0 == c.totalPrincipal
                S  == SettledBefore(c, c.i)
            IN  /\ c.principalRunning = RAdd(P0, S)
                /\ \A j \in 1..(c.i - 1) :
                       c.results[j].ok =>
                           ~TsLt(d.created_at,
                                 investor_deposit_requests[c.pending[j]].created_at)
                /\ RejectsForCap(r) <=>
                       RGt(RAdd(RAdd(P0, S), num(d.amount)), RAdd(c.nav, EPS))
                /\ RejectsForCap(r) =>
                       /\ call'[r].principalRunning = c.principalRunning
                       /\ SettledBefore(call'[r], call'[r].i) = S]_vars

\* a batch has settled one deposit and then rejected for the cap a later one that
\* would have fitted beside the starting principal alone
C22_Witness ==
    \E r \in Runs : \E j, k \in DOMAIN call[r].results :
        LET c == call[r]
            d == investor_deposit_requests[c.results[k].id]
        IN  /\ c.kind = "deposits" /\ j < k
            /\ c.results[j].ok
            /\ c.results[k].reason = CapReason
            /\ RLe(RAdd(c.totalPrincipal, num(d.amount)), RAdd(c.nav, EPS))
            /\ RGt(RAdd(RunningBefore(c, k), num(d.amount)), RAdd(c.nav, EPS))

(* C23: the account update and the request update are two writes with nothing to
   undo the first. When the request update fails after the account update, the
   account keeps the added shares and principal and the request stays PENDING;
   the select of a later execute-deposits run takes every PENDING row, this one
   included, and settles it again. *)
C23_AccountKeptRequestPending ==
    [][\A r \in Runs :
        LET c == call[r]
        IN  /\ (c.kind = "deposits" /\ c.pc = "updReq" /\ call'[r].pc = "done") =>
                LET id == c.pending[c.i]
                    d  == investor_deposit_requests[id]
                IN  /\ call'[r].status = 500
                    /\ store' = store
                    /\ d.status = "PENDING"
                    /\ investor_accounts[d.user_id].shares =
                           RAdd(num(c.acct.shares), RDiv(num(d.amount), c.sharePrice))
                    /\ investor_accounts[d.user_id].principal =
                           RAdd(num(c.acct.principal), num(d.amount))
            /\ (c.kind = "deposits" /\ c.pc = "fetch" /\ call'[r] # c /\ faults' = faults) =>
                Range(call'[r].pending) =
                    {k \in DOMAIN investor_deposit_requests :
                        investor_deposit_requests[k].status = "PENDING"}]_vars

\* one request update has failed, and the only deposit that is MINTED now has been
\* added twice to the principal of the accounts (3 at the start)
C23_Witness ==
    /\ faults = 1
    /\ \E r \in Runs : call[r].kind = "deposits" /\ call[r].status = 200
    /\ \E id \in DOMAIN investor_deposit_requests :
          LET d == investor_deposit_requests[id]
          IN  /\ d.status = "MINTED" /\ IsPos(d.amount)
              /\ \A k \in DOMAIN investor_deposit_requests :
                     investor_deposit_requests[k].status = "MINTED" => k = id
              /\ AggregatePrincipal = RAdd(R(3), RAdd(d.amount, d.amount))

(* C24: while the latest snapshot stays the same and stores a positive share_price
   or a positive total_shares, settlements do not move the price: every
   execute-deposits execution resolves the price at which the deposits settled
   before it were minted, however many there are. Only a price taken from the live
   sum of the account shares changes with the settlements. *)
C24_SnapshotPriceUnmovedBySettlements ==
    \A r \in Runs :
        LET c   == call[r]
            row == SnapshotOf(c)
        IN  (HasResolved(r) /\
             (IsPos(Field(row, "share_price")) \/ IsPos(Field(row, "total_shares")))) =>
                \A id \in DOMAIN investor_deposit_requests :
                    investor_deposit_requests[id].status = "MINTED" =>
                        investor_deposit_requests[id].share_price_used = c.sharePrice

\* an execution has just resolved its price from the snapshot after an earlier
\* execution minted a deposit and so changed the live sum of shares
C24_Witness ==
    \E r \in Runs :
        /\ HasResolved(r) /\ call[r].pc = "fetch"
        /\ call[r].sharePriceSource # "fallback(nav/totalSharesFromAccounts)"
        /\ \E id \in DOMAIN investor_deposit_requests :
              /\ investor_deposit_requests[id].status = "MINTED"
              /\ IsPos(investor_deposit_requests[id].minted_shares)
              /\ investor_deposit_requests[id].share_price_used = call[r].sharePrice

(* C25: execute-withdrawals resolves its batch price as the resolver of
   execute-deposits does: on the same data store it uses the price
   execute-deposits would resolve, also when the latest snapshot stores a
   share_price or a total_shares. *)
C25_WithdrawalsUseResolverPrice ==
    \A r \in Runs :
        (call[r].kind = "withdrawals" /\ call[r].pc = "fetch") =>
            \E navRow \in LatestNavRows(nav_snapshots) :
                call[r].sharePrice =
                    getLatestNavAndSharePrice(navRow, investor_accounts).sharePrice

(* C26: however concurrent execute-deposits invocations interleave, each deposit
   is minted at most once: no deposit has more than one principal_adjustments row
   and no deposit is reported as settled by two invocations. *)
C26_EachDepositMintedOnce ==
    faults = 0 =>
        \A id \in DOMAIN investor_deposit_requests :
            /\ Cardinality({k \in DOMAIN principal_adjustments :
                               principal_adjustments[k].deposit_id = id}) <= 1
            /\ Cardinality({r \in Runs :
                               /\ call[r].kind = "deposits"
                               /\ \E k \in DOMAIN call[r].results :
                                      call[r].results[k].ok /\ call[r].results[k].id = id}) <= 1

\* the shares the settled requests of user u reported by invocation c add up to:
\* minted shares count up, burned shares count down
ReportedShares(c, u) ==
    SumOver([k \in DOMAIN c.results |->
                IF ~c.results[k].ok THEN Zero
                ELSE IF c.kind = "deposits"
                THEN IF investor_deposit_requests[c.results[k].id].user_id = u
                     THEN c.results[k].shares ELSE Zero
                ELSE IF investor_withdraw_requests[c.results[k].id].user_id = u
                     THEN RNeg(c.results[k].shares) ELSE Zero],
            DOMAIN c.results)

(* C27: when two settlement invocations update the same account concurrently no
   update is lost: once both have answered, the account's shares are its starting
   shares plus the shares minted minus the shares burned by the requests the two
   invocations report as settled. *)
C27_NoLostAccountUpdate ==
    (/\ faults = 0 /\ started = 2
     /\ \A r \in Runs : call[r].pc = "done" /\ call[r].status = 200) =>
        \A u \in DOMAIN investor_accounts :
            investor_accounts[u].shares =
                RAdd(RAdd(AccountsA(Zero)[u].shares, ReportedShares(call["a"], u)),
                     ReportedShares(call["b"], u))

(* C28: execute-withdrawals batches run one at a time never take an account's
   shares below zero by more than the tolerance 1e-12: each pending withdrawal of
   an account is checked against, and deducted from, the shares left by the
   withdrawals of that account settled before it in the batch. *)
C28_SharesNeverBelowTolerance ==
    /\ \A u \in DOMAIN investor_accounts :
           RLe(RNeg(Pico), NumberOrZero(investor_accounts[u].shares))
    /\ \A r \in Runs :
           LET c == call[r]
               user(k) == investor_withdraw_requests[c.results[k].id].user_id
           IN  c.kind = "withdrawals" =>
                   \A j, k \in DOMAIN c.results :
                       (/\ j < k /\ c.results[j].ok /\ user(j) = user(k)
                        /\ c.results[k].reason \in {"", "insufficient shares"}
                        /\ \A m \in (j + 1)..(k - 1) : ~(c.results[m].ok /\ user(m) = user(j))) =>
                           LET burn == BurnShares(
                                   NumberOrZero(investor_withdraw_requests[c.results[k].id].amount),
                                   c.sharePrice)
                           IN  /\ c.results[k].reason = "insufficient shares" <=>
                                      RLt(RAdd(c.results[j].new_shares, Pico), burn)
                               /\ c.results[k].ok =>
                                      /\ c.results[k].new_shares =
                                             RSub(c.results[j].new_shares, burn)
                                      /\ RLe(RNeg(Pico), c.results[k].new_shares)

\* a batch has settled one withdrawal of an account and then rejected another one
\* of the same account that the shares held before the batch would have covered
C28_Witness ==
    \E r \in Runs : \E j, k \in DOMAIN call[r].results :
        LET c  == call[r]
            wj == investor_withdraw_requests[c.results[j].id]
            wk == investor_withdraw_requests[c.results[k].id]
        IN  /\ c.kind = "withdrawals" /\ j < k
            /\ c.results[j].ok
            /\ c.results[k].reason = "insufficient shares"
            /\ wj.user_id = wk.user_id
            /\ RLe(BurnShares(NumberOrZero(wk.amount), c.sharePrice),
                   RAdd(c.results[j].new_shares, c.results[j].shares))

\* the aggregate principal at the end of invocation c: what it read at the start
\* plus every amount it settled
FinalPrincipal(c) == RunningBefore(c, Len(c.results) + 1)

(* C29: after an execute-deposits batch that completes without a backend error,
   every deposit of the batch that is still PENDING fails at least one guard: its
   amount is not a finite positive number, its created_at is not known or is later
   than the snapshot's, its account does not exist, or the final aggregate
   principal plus its amount exceeds total_nav + 1e-6. Every other deposit of the
   batch is MINTED, and the reported executed count is the number of deposits the
   batch turned MINTED. *)
C29_PendingAfterBatchFailsAGuard ==
    \A r \in Runs :
        LET c == call[r]
        IN  (c.kind = "deposits" /\ c.pc = "done" /\ c.status = 200) =>
                /\ \A k \in DOMAIN c.pending :
                       LET d == investor_deposit_requests[c.pending[k]]
                       IN  /\ d.status \in {"PENDING", "MINTED"}
                           /\ d.status = "PENDING" =>
                                  \/ ~IsFinite(num(d.amount)) \/ ~IsPos(num(d.amount))
                                  \/ IsMissing(d.created_at) \/ ~TsFinite(d.created_at)
                                  \/ TsLt(c.navCreatedAt, d.created_at)
                                  \/ d.user_id \notin DOMAIN investor_accounts
                                  \/ RGt(RAdd(FinalPrincipal(c), num(d.amount)),
                                         RAdd(c.nav, EPS))
                /\ c.executed =
                       Cardinality({k \in DOMAIN c.pending :
                           investor_deposit_requests[c.pending[k]].status = "MINTED"})

\* a batch of two deposits has completed: one is MINTED, the other is still PENDING
\* only because the principal after the batch leaves no room for it
C29_Witness ==
    \E r \in Runs : \E j, k \in DOMAIN call[r].pending :
        LET c  == call[r]
            dj == investor_deposit_requests[c.pending[j]]
            dk == investor_deposit_requests[c.pending[k]]
        IN  /\ c.kind = "deposits" /\ c.pc = "done" /\ c.status = 200 /\ c.executed = 1
            /\ dj.status = "MINTED" /\ dk.status = "PENDING"
            /\ IsPos(num(dk.amount))
            /\ TsFinite(dk.created_at) /\ ~TsLt(c.navCreatedAt, dk.created_at)
            /\ dk.user_id \in DOMAIN investor_accounts
            /\ RLe(RAdd(c.totalPrincipal, num(dk.amount)), RAdd(c.nav, EPS))
            /\ RGt(RAdd(FinalPrincipal(c), num(dk.amount)), RAdd(c.nav, EPS))

\* the deposit that run r is about to handle fails one of the four guards of
\* execute-deposits
FailsAGuard(r) ==
    LET c == call[r]
        d == investor_deposit_requests[c.pending[c.i]]
        amount == num(d.amount)
    IN  \/ ~IsFinite(amount) \/ RLe(amount, Zero)
        \/ IsMissing(d.created_at) \/ ~TsFinite(d.created_at)
        \/ TsLt(c.navCreatedAt, d.created_at)
        \/ RGt(RAdd(c.principalRunning, amount), RAdd(c.nav, EPS))
        \/ d.user_id \notin DOMAIN investor_accounts

RejectionReasons ==
    {"invalid amount", "nav too old", CapReason, "account not found"}

(* C30: a deposit that execute-deposits rejects (invalid amount, nav too old, cap,
   account not found) leaves the data store as it was for that request: its status
   stays PENDING, no account's shares or principal change, no principal_adjustments
   row is added and the running principal total is not increased. *)
C30_RejectionChangesNothing ==
    [][\A r \in Runs :
        LET c == call[r]
        IN  (/\ c.kind = "deposits" /\ c.pc = "loop" /\ c.i <= Len(c.pending)
             /\ call'[r] # c /\ faults' = faults
             /\ FailsAGuard(r)) =>
                LET c2 == call'[r]
                    id == c.pending[c.i]
                IN  /\ c2.pc = "loop" /\ c2.i = c.i + 1
                    /\ Len(c2.results) = Len(c.results) + 1
                    /\ ~c2.results[Len(c2.results)].ok
                    /\ c2.results[Len(c2.results)].id = id
                    /\ c2.results[Len(c2.results)].reason \in RejectionReasons
                    /\ investor_deposit_requests'[id].status = "PENDING"
                    /\ investor_accounts' = investor_accounts
                    /\ principal_adjustments' = principal_adjustments
                    /\ store' = store
                    /\ c2.principalRunning = c.principalRunning]_vars

\* a batch has rejected deposits for each of two different reasons and the accounts,
\* the requests and principal_adjustments are as the batch found them
C30_Witness ==
    \E r \in Runs :
        LET c == call[r]
        IN  /\ c.kind = "deposits" /\ c.pc = "loop" /\ Len(c.results) = 2
            /\ ~c.results[1].ok /\ ~c.results[2].ok
            /\ c.results[1].reason # c.results[2].reason
            /\ \A k \in DOMAIN c.pending :
                   investor_deposit_requests[c.pending[k]].status = "PENDING"
            /\ principal_adjustments = <<>>
            /\ AggregatePrincipal = c.totalPrincipal
            /\ c.principalRunning = c.totalPrincipal

=============================================================================
